---- MODULE Spec2Model ----
(***************************************************************************)
(* tplgen (src/src/main.rs): a template generator.  App::new builds the    *)
(* data context (App::get_data, App::merge) and the template registry      *)
(* (App::get_engine, App::register_templates, App::filter_file,            *)
(* Opt::get_ext); App::generate renders every registered template.         *)
(*                                                                         *)
(* Strings that the code slices or matches (paths, file names, the         *)
(* extension) are sequences of one-character strings.  JSON values         *)
(* (serde_json::Value) are tagged records.                                 *)
(***************************************************************************)
EXTENDS Integers, Sequences, FiniteSets, TLC

VARIABLES
    pc,          \* position of the program
    no_env,      \* Opt.no_env
    prefer_env,  \* Opt.prefer_env
    env,         \* std::env::vars(): variable name -> string
    values,      \* Opt.values, each path with what opening and parsing it gives
    vidx,        \* position of the value-file loop of get_data
    obj,         \* get_data's running `obj`
    data,        \* App.data, the Context
    ma, mb, mr,  \* App::merge called alone: a before, b, a after
    platform,    \* "unix" or "windows": decides path::MAIN_SEPARATOR
    extension,   \* Opt.extension
    ninput,      \* the number of root paths in Opt.input
    input,       \* the root path of Opt.input the loop of get_engine is at
    ridx,        \* position of the input loop of get_engine
    scan,        \* what the file system holds at the root being registered
    pos,         \* position of the entry loop of register_templates
    registry,    \* the engine's templates: name -> source path and body
    left,        \* generate: names the loop has still to visit
    attempts     \* generate: name -> number of times it was attempted

dataVars == <<no_env, prefer_env, env, values, vidx, obj, data>>
mergeVars == <<ma, mb, mr>>
engineVars == <<platform, extension, ninput, input, ridx, scan, pos, registry>>
genVars == <<left, attempts>>
vars == <<pc, dataVars, mergeVars, engineVars, genVars>>

(***************************************************************************)
(* Bounds                                                                  *)
(***************************************************************************)
MaxFiles == 2
MaxRoots == 2
MaxEntries == 2

(***************************************************************************)
(* serde_json::Value                                                       *)
(***************************************************************************)
Null == [t |-> "null"]
Num(n) == [t |-> "num", n |-> n]
Str(s) == [t |-> "str", s |-> s]
Arr(q) == [t |-> "arr", q |-> q]
Object(m) == [t |-> "obj", m |-> m]

IsObject(v) == v.t = "obj"

EmptyMap == <<>>

PFun(K, V) == UNION {[D -> V] : D \in SUBSET K}

SeqsUpTo(S, n) == UNION {[1..k -> S] : k \in 0..n}

(***************************************************************************)
(* App::merge.  Both objects: every (k, v) of b is merged into the slot    *)
(* a.entry(k).or_insert(Null); anything else: *a = b.clone().              *)
(***************************************************************************)
RECURSIVE merge_shallow(_, _)
merge_shallow(a, b) ==
    IF IsObject(a) /\ IsObject(b)
    THEN Object([k \in DOMAIN a.m \cup DOMAIN b.m |->
                    IF k \in DOMAIN b.m THEN b.m[k] ELSE a.m[k]])
    ELSE b

RECURSIVE merge(_, _), MergeEntries(_, _, _)
merge(a, b) ==
    IF IsObject(a) /\ IsObject(b)
    THEN Object(MergeEntries(a.m, b.m, DOMAIN b.m))
    ELSE b

MergeEntries(am, bm, ks) ==
    IF ks = {} THEN am
    ELSE LET k == CHOOSE x \in ks : TRUE
             slot == IF k \in DOMAIN am THEN am[k] ELSE Null
             am2 == [x \in DOMAIN am \cup {k} |->
                        IF x = k THEN merge(slot, bm[k]) ELSE am[x]]
         IN  MergeEntries(am2, bm, ks \ {k})

(***************************************************************************)
(* Inputs of App::merge called alone                                       *)
(***************************************************************************)
MergeLeaves == {Null, Num(1), Arr(<<Num(1)>>), Arr(<<Num(2), Num(1)>>)}
MergeInner == {Object(f) : f \in PFun({"x", "y"}, {Num(1), Num(2)})}
MergeValues ==
    MergeLeaves \cup {Object(f) : f \in PFun({"a", "b"}, MergeLeaves \cup MergeInner)}

(***************************************************************************)
(* Inputs of App::get_data                                                 *)
(***************************************************************************)
Keys == {"FOO", "BAR"}

Envs == PFun(Keys, {"env"})

MapDocs ==
    {Object(f) : f \in UNION {[D -> {Str("file"), Object([x |-> Num(1)])}] :
                                 D \in SUBSET Keys}}
OtherDocs == {Null, Num(1), Arr(<<Num(1)>>)}
Docs == MapDocs \cup OtherDocs

\* A value file: whether File::open succeeds, its lowercased extension,
\* whether the parser accepts it, whether to_value converts the YAML document,
\* and the parsed document.
Exts == {"yaml", "json"}
ValueFiles ==
    {[open |-> FALSE, ext |-> "json", parsed |-> FALSE, conv |-> FALSE, doc |-> Null]}
    \cup {[open |-> TRUE, ext |-> e, parsed |-> FALSE, conv |-> FALSE, doc |-> Null] :
             e \in Exts}
    \cup {[open |-> TRUE, ext |-> "yaml", parsed |-> TRUE, conv |-> FALSE, doc |-> Null]}
    \cup {[open |-> TRUE, ext |-> e, parsed |-> TRUE, conv |-> TRUE, doc |-> d] :
             e \in Exts, d \in Docs}

\* std::env::vars() as a JSON object of strings
EnvObject == Object([k \in DOMAIN env |-> Str(env[k])])

\* One iteration of the value-file loop of get_data
LoadValue(o, f) ==
    IF ~f.open THEN o
    ELSE IF f.ext = "yaml" \/ f.ext = "yml"
         THEN IF f.parsed
              THEN merge(o, IF f.conv THEN f.doc ELSE Null)
              ELSE o
         ELSE merge(o, IF f.parsed THEN f.doc ELSE Null)

\* The tail of get_data: the environment overlaid on the merged files
Overlay(o) ==
    LET mapping == IF IsObject(o) THEN o.m ELSE EmptyMap
    IN  Object([k \in DOMAIN mapping \cup DOMAIN env |->
                   IF k \in DOMAIN env THEN Str(env[k]) ELSE mapping[k]])

\* The variables of a part of the program that a specification leaves alone
NoScan == [kind |-> "none", body |-> "plain", entries |-> <<>>]

DataIdle ==
    /\ no_env = FALSE /\ prefer_env = FALSE /\ env = EmptyMap
    /\ values = <<>> /\ vidx = 1 /\ obj = Null /\ data = Null
    /\ ma = Null /\ mb = Null /\ mr = Null

EngineIdle ==
    /\ platform = "unix" /\ extension = <<>> /\ ninput = 0 /\ input = <<>>
    /\ ridx = 0 /\ scan = NoScan /\ pos = 1 /\ registry = EmptyMap

GenIdle == left = {} /\ attempts = EmptyMap

(***************************************************************************)
(* App::get_data                                                           *)
(***************************************************************************)
InitData ==
    /\ pc = "get_data"
    /\ no_env \in BOOLEAN
    /\ prefer_env \in BOOLEAN
    /\ env \in Envs
    /\ values \in SeqsUpTo(ValueFiles, MaxFiles)
    /\ vidx = 1
    /\ obj = Object(EmptyMap)
    /\ data = Null
    /\ ma = Null /\ mb = Null /\ mr = Null
    /\ EngineIdle
    /\ GenIdle

SeedEnv ==
    /\ pc = "get_data"
    /\ obj' = IF ~no_env /\ ~prefer_env THEN EnvObject ELSE Object(EmptyMap)
    /\ pc' = "values"
    /\ UNCHANGED <<no_env, prefer_env, env, values, vidx, data, mergeVars, engineVars, genVars>>

ReadValueFile ==
    /\ pc = "values"
    /\ vidx <= Len(values)
    /\ obj' = LoadValue(obj, values[vidx])
    /\ vidx' = vidx + 1
    /\ UNCHANGED <<pc, no_env, prefer_env, env, values, data, mergeVars, engineVars, genVars>>

FinishData ==
    /\ pc = "values"
    /\ vidx > Len(values)
    /\ data' = IF ~no_env /\ prefer_env THEN Overlay(obj) ELSE obj
    /\ pc' = "data_done"
    /\ UNCHANGED <<no_env, prefer_env, env, values, vidx, obj, mergeVars, engineVars, genVars>>

NextData == SeedEnv \/ ReadValueFile \/ FinishData

SpecData == InitData /\ [][NextData]_vars

(***************************************************************************)
(* App::merge called alone                                                 *)
(***************************************************************************)
InitMerge ==
    /\ pc = "merge"
    /\ ma \in MergeValues
    /\ mb \in MergeValues
    /\ mr = Null
    /\ no_env = FALSE /\ prefer_env = FALSE /\ env = EmptyMap
    /\ values = <<>> /\ vidx = 1 /\ obj = Null /\ data = Null
    /\ EngineIdle
    /\ GenIdle

CallMerge ==
    /\ pc = "merge"
    /\ mr' = merge(ma, mb)
    /\ pc' = "merged"
    /\ UNCHANGED <<ma, mb, dataVars, engineVars, genVars>>

NextMerge == CallMerge

SpecMerge == InitMerge /\ [][NextMerge]_vars

(***************************************************************************)
(* Strings and paths                                                       *)
(***************************************************************************)
Last(s) == s[Len(s)]

StartsWith(s, c) == Len(s) > 0 /\ s[1] = c

EndsWith(s, suffix) ==
    /\ Len(s) >= Len(suffix)
    /\ SubSeq(s, Len(s) - Len(suffix) + 1, Len(s)) = suffix

\* path::MAIN_SEPARATOR and std's is_separator
MAIN_SEPARATOR == IF platform = "windows" THEN "\\" ELSE "/"

IsSep(c) == c = "/" \/ (platform = "windows" /\ c = "\\")

\* A bare drive such as C: (Windows only); std's PathBuf::push puts no
\* separator between it and the component pushed
IsDrive(p) == platform = "windows" /\ Len(p) = 2 /\ p[2] = ":"

\* Path::join of one component, as the directory walk builds entry.path():
\* a separator is inserted unless the path already ends in one
Join(p, name) ==
    IF p = <<>> \/ IsSep(Last(p)) \/ IsDrive(p)
    THEN p \o name
    ELSE p \o <<MAIN_SEPARATOR>> \o name

RECURSIVE JoinAll(_, _)
JoinAll(p, comps) ==
    IF comps = <<>> THEN p ELSE JoinAll(Join(p, Head(comps)), Tail(comps))

\* entry.path() and its file_name() for an entry at rel below the root
EntryPath(root, e) == JoinAll(root, e.rel)

EntryName(e) == Last(e.rel)

\* Path::file_name and Path::file_stem of a root that is a regular file
LastSepIndex(p) ==
    LET I == {i \in 1..Len(p) : IsSep(p[i])}
    IN  IF I = {} THEN 0 ELSE CHOOSE i \in I : \A j \in I : j <= i

FileName(p) == SubSeq(p, LastSepIndex(p) + 1, Len(p))

FileStem(p) ==
    LET n == FileName(p)
        I == {i \in 2..Len(n) : n[i] = "."}
    IN  IF I = {} THEN n
        ELSE SubSeq(n, 1, (CHOOSE i \in I : \A j \in I : j <= i) - 1)

(***************************************************************************)
(* Opt::get_ext, App::filter_file and the name computation of              *)
(* App::register_templates                                                 *)
(***************************************************************************)
get_ext(ext) == IF StartsWith(ext, ".") THEN ext ELSE <<".">> \o ext

\* TRUE when the walk drops the entry
filter_file_no_hash(e, suffix) ==
    \/ ~e.file
    \/ StartsWith(EntryName(e), "~")
    \/ ~EndsWith(EntryName(e), suffix)

filter_file(e, suffix) ==
    \/ ~e.file
    \/ StartsWith(EntryName(e), "~")
    \/ StartsWith(EntryName(e), "#")
    \/ ~EndsWith(EntryName(e), suffix)

prefix_len(dir_path) ==
    IF Len(dir_path) > 0 /\ Last(dir_path) \in {"\\", "/"}
    THEN Len(dir_path)
    ELSE Len(dir_path) + 1

\* &tpl_file_path[prefix_len..tpl_file_path.len() - tpl_extension.len()]
\* panics unless start <= end
SliceInRange(path, suffix, start) == start <= Len(path) - Len(suffix)

tpl_name(path, suffix, start) == SubSeq(path, start + 1, Len(path) - Len(suffix))

\* tpl_name.replace(path::MAIN_SEPARATOR, "/")
tpl_canonical_name(name) ==
    [i \in 1..Len(name) |-> IF name[i] = MAIN_SEPARATOR THEN "/" ELSE name[i]]

\* Handlebars::register_template_file on a body that parses
Register(reg, name, path, body) ==
    [n \in DOMAIN reg \cup {name} |->
        IF n = name THEN [path |-> path, body |-> body] ELSE reg[n]]

(***************************************************************************)
(* Inputs of App::get_engine                                               *)
(***************************************************************************)
Platforms == {"unix", "windows"}

Extensions == {<<".", "h", "b", "s">>, <<"h", "b", "s">>}

RootPaths ==
    {<<"t", ".", "x">>, <<"t", ".", "x", "/">>, <<"t", ".", "x", "\\">>, <<"C", ":">>}

\* A template body: "plain" parses and renders, "syntax" fails to parse,
\* "unwrap" parses and calls a helper without a parameter the helper unwraps
Bodies == {"plain", "syntax", "unwrap"}

NameA == <<"a", ".", "h", "b", "s">>
NameTilde == <<"~", "a", ".", "h", "b", "s">>
NameHash == <<"#", "a", ".", "h", "b", "s">>
NameNoDot == <<"a", "h", "b", "s">>
NameOnlySuffix == <<".", "h", "b", "s">>
NameUpper == <<"a", ".", "H", "B", "S">>
NameDir == <<"e", ".", "h", "b", "s">>
NameSub == <<"d">>

\* What the walk can yield: regular files at depth 1 and 2, and a directory
EntryKinds ==
    {[rel |-> <<n>>, file |-> TRUE, body |-> "plain"] :
        n \in {NameA, NameTilde, NameHash, NameNoDot, NameOnlySuffix, NameUpper}}
    \cup {[rel |-> <<NameA>>, file |-> TRUE, body |-> "syntax"]}
    \cup {[rel |-> <<NameSub, NameA>>, file |-> TRUE, body |-> "plain"]}
    \cup {[rel |-> <<NameDir>>, file |-> FALSE, body |-> "plain"]}

Listings ==
    {l \in SeqsUpTo(EntryKinds, MaxEntries) :
        \A i, j \in 1..Len(l) : i # j => l[i].rel # l[j].rel}

CanBeFile(root) ==
    Len(root) > 0 /\ ~IsSep(Last(root)) /\ ~IsDrive(root)

Scans(root) ==
    {NoScan}
    \cup {[kind |-> "file", body |-> b, entries |-> <<>>] :
             b \in IF CanBeFile(root) THEN Bodies ELSE {}}
    \cup {[kind |-> "dir", body |-> "plain", entries |-> l] : l \in Listings}

(***************************************************************************)
(* App::get_engine and App::register_templates                             *)
(***************************************************************************)
InitEngine ==
    /\ pc = "get_engine"
    /\ platform \in Platforms
    /\ extension \in Extensions
    /\ ninput \in 0..MaxRoots
    /\ input = <<>>
    /\ ridx = 0
    /\ scan = NoScan
    /\ pos = 1
    /\ registry = EmptyMap
    /\ DataIdle
    /\ GenIdle

\* register_templates on a root that is a regular file
RegisterFileRoot ==
    /\ pc = "get_engine"
    /\ ridx < ninput
    /\ \E root \in RootPaths :
          \E d \in Scans(root) :
             /\ d.kind = "file"
             /\ input' = root
             /\ scan' = d
             /\ registry' = IF d.body = "syntax" THEN registry
                            ELSE Register(registry, FileStem(root), root, d.body)
    /\ ridx' = ridx + 1
    /\ UNCHANGED <<pc, platform, extension, ninput, pos, dataVars, mergeVars, genVars>>

\* register_templates on a root that cannot be walked: the error entry is
\* filtered out
SkipMissingRoot ==
    /\ pc = "get_engine"
    /\ ridx < ninput
    /\ input' \in RootPaths
    /\ scan' = NoScan
    /\ ridx' = ridx + 1
    /\ UNCHANGED <<pc, platform, extension, ninput, pos, registry, dataVars, mergeVars, genVars>>

\* register_templates on a directory: the walk starts
StartWalk ==
    /\ pc = "get_engine"
    /\ ridx < ninput
    /\ \E root \in RootPaths :
          \E d \in Scans(root) :
             /\ d.kind = "dir"
             /\ input' = root
             /\ scan' = d
    /\ ridx' = ridx + 1
    /\ pos' = 1
    /\ pc' = "walk"
    /\ UNCHANGED <<platform, extension, ninput, registry, dataVars, mergeVars, genVars>>

\* One entry of the walk: filtered, or named and registered; a registration
\* error returns from register_templates
WalkEntry ==
    /\ pc = "walk"
    /\ pos <= Len(scan.entries)
    /\ LET e == scan.entries[pos]
           ext == get_ext(extension)
           path == EntryPath(input, e)
           start == prefix_len(input)
       IN  IF filter_file(e, ext)
           THEN /\ pos' = pos + 1
                /\ UNCHANGED <<pc, registry>>
           ELSE IF ~SliceInRange(path, ext, start)
           THEN /\ pc' = "panic"
                /\ UNCHANGED <<pos, registry>>
           ELSE IF e.body = "syntax"
           THEN /\ pc' = "get_engine"
                /\ UNCHANGED <<pos, registry>>
           ELSE /\ registry' = Register(registry,
                                        tpl_canonical_name(tpl_name(path, ext, start)),
                                        path, e.body)
                /\ pos' = pos + 1
                /\ UNCHANGED pc
    /\ UNCHANGED <<platform, extension, ninput, input, ridx, scan, dataVars, mergeVars, genVars>>

EndWalk ==
    /\ pc = "walk"
    /\ pos > Len(scan.entries)
    /\ pc' = "get_engine"
    /\ UNCHANGED <<engineVars, dataVars, mergeVars, genVars>>

\* Opt.input has no further root
FinishEngine ==
    /\ pc = "get_engine"
    /\ ridx = ninput
    /\ pc' = "engine_done"
    /\ UNCHANGED <<engineVars, dataVars, mergeVars, genVars>>

NextEngine ==
    \/ RegisterFileRoot
    \/ SkipMissingRoot
    \/ StartWalk
    \/ WalkEntry
    \/ EndWalk
    \/ FinishEngine

SpecEngine == InitEngine /\ [][NextEngine]_vars

\* get_engine with one input: App::register_templates called once
InitRegister == InitEngine /\ ninput = 1

SpecRegister == InitRegister /\ [][NextEngine]_vars

(***************************************************************************)
(* App::generate                                                           *)
(***************************************************************************)
GenNames == {<<"a">>, <<"b">>, <<"d", "/", "a">>}

GenRegistries ==
    {[n \in D |-> [path |-> <<"r", "/">> \o n \o <<".", "h", "b", "s">>, body |-> b[n]]] :
        D \in SUBSET GenNames, b \in [GenNames -> {"plain", "unwrap"}]}

InitGenerate ==
    /\ pc = "generate"
    /\ platform = "unix" /\ extension = <<".", "h", "b", "s">>
    /\ ninput = 0 /\ input = <<>>
    /\ ridx = 0 /\ scan = NoScan /\ pos = 1
    /\ registry \in GenRegistries
    /\ left = DOMAIN registry
    /\ attempts = [n \in DOMAIN registry |-> 0]
    /\ DataIdle

\* One template of the loop.  create_dir_all's error is logged and dropped;
\* File::create either fails (logged) or gives the file render_to_write
\* writes to.  A helper's unwrap() of a missing parameter panics.
RenderTemplate ==
    /\ pc = "generate"
    /\ \E name \in left, created \in BOOLEAN :
          /\ left' = left \ {name}
          /\ attempts' = [attempts EXCEPT ![name] = @ + 1]
          /\ pc' = IF created /\ registry[name].body = "unwrap"
                   THEN "panic" ELSE "generate"
    /\ UNCHANGED <<engineVars, dataVars, mergeVars>>

FinishGenerate ==
    /\ pc = "generate"
    /\ left = {}
    /\ pc' = "done"
    /\ UNCHANGED <<engineVars, dataVars, mergeVars, genVars>>

NextGenerate == RenderTemplate \/ FinishGenerate

SpecGenerate == InitGenerate /\ [][NextGenerate]_vars

(***************************************************************************)
(* Claims about App::merge                                                 *)
(***************************************************************************)
\* What the deep merge of b into a must be, stated on the result r
RECURSIVE IsDeepMerge(_, _, _)
IsDeepMerge(a, b, r) ==
    IF IsObject(a) /\ IsObject(b)
    THEN /\ IsObject(r)
         /\ DOMAIN r.m = DOMAIN a.m \cup DOMAIN b.m
         /\ \A k \in DOMAIN r.m :
               IF k \notin DOMAIN b.m THEN r.m[k] = a.m[k]
               ELSE IF k \notin DOMAIN a.m THEN r.m[k] = b.m[k]
               ELSE IF IsObject(a.m[k]) /\ IsObject(b.m[k])
                    THEN IsDeepMerge(a.m[k], b.m[k], r.m[k])
                    ELSE r.m[k] = b.m[k]
    ELSE r = b

AX1 == Object([a |-> Object([x |-> Num(1)])])
AY2 == Object([a |-> Object([y |-> Num(2)])])
AX1Y2 == Object([a |-> Object([x |-> Num(1), y |-> Num(2)])])
A1 == Object([a |-> Num(1)])

\* C5: merging b into a keeps the keys only in a, takes the keys only in b,
\* merges recursively a key whose two values are mappings and lets b's value
\* replace a's for every other pair; sequences are replaced whole.
C5_DeepMerge ==
    pc = "merged" =>
        /\ IsDeepMerge(ma, mb, mr)
        /\ (ma = AX1 /\ mb = AY2) => mr = AX1Y2
        /\ (ma = A1 /\ mb = AX1) => mr = AX1
        /\ (ma.t = "arr" /\ mb.t = "arr") => mr = mb

C5_Witness ==
    /\ pc = "merged"
    /\ ma = AX1 /\ mb = AY2 /\ mr = AX1Y2

(***************************************************************************)
(* Claims about App::get_data                                              *)
(***************************************************************************)
\* The file was opened, parsed and converted: it has a value
HasValue(f) == f.open /\ f.parsed /\ f.conv

\* The value files that have a value, deep-merged in input order into o
RECURSIVE MergeFiles(_, _)
MergeFiles(o, fs) ==
    IF fs = <<>> THEN o
    ELSE MergeFiles(IF HasValue(Head(fs)) THEN merge(o, Head(fs).doc) ELSE o,
                    Tail(fs))

\* The value files whose root is a mapping, deep-merged in input order into o
RECURSIVE MergeMapFiles(_, _)
MergeMapFiles(o, fs) ==
    IF fs = <<>> THEN o
    ELSE MergeMapFiles(IF HasValue(Head(fs)) /\ IsObject(Head(fs).doc)
                       THEN merge(o, Head(fs).doc) ELSE o,
                       Tail(fs))

Defines(f, k) == HasValue(f) /\ IsObject(f.doc) /\ k \in DOMAIN f.doc.m

Holds(ctx, k, v) == IsObject(ctx) /\ k \in DOMAIN ctx.m /\ ctx.m[k] = v

\* C1: the Context returned by get_data is a mapping at its root, whatever
\* the flags and the value files.
C1_RootIsMapping == pc = "data_done" => IsObject(data)

\* C2: with no-env false, a key set by the environment and by a mapping-rooted
\* value file holds the file's value when prefer-env is false and the
\* environment's string when it is true; an environment variable no value file
\* defines is in the Context with its string value.
C2_Precedence ==
    (pc = "data_done" /\ ~no_env) =>
        \A k \in DOMAIN env :
            IF \E i \in 1..Len(values) : Defines(values[i], k)
            THEN Holds(data, k, IF prefer_env THEN Str(env[k])
                                ELSE MergeMapFiles(Object(EmptyMap), values).m[k])
            ELSE Holds(data, k, Str(env[k]))

\* C3: with no-env true the Context is the value files deep-merged in input
\* order into an empty mapping, whatever prefer-env.
C3_NoEnv ==
    (pc = "data_done" /\ no_env) => data = MergeFiles(Object(EmptyMap), values)

\* C4: a value file that cannot be opened or fails to parse leaves the running
\* Context as it was, and the loop goes on to the next value file.
C4_SkipUnreadable ==
    [][(pc = "values" /\ vidx <= Len(values)
          /\ (~values[vidx].open \/ ~values[vidx].parsed))
       => (obj' = obj /\ vidx' = vidx + 1 /\ pc' = "values")]_vars

\* C10: a value file that parses to a scalar, a sequence or null is merged as
\* an empty mapping: the running Context is as it was.
C10_NonMapRoot ==
    [][(pc = "values" /\ vidx <= Len(values)
          /\ HasValue(values[vidx]) /\ ~IsObject(values[vidx].doc))
       => obj' = obj]_vars

(***************************************************************************)
(* Claims about App::get_engine, App::register_templates, App::filter_file *)
(***************************************************************************)
\* The effective suffix of a configured extension
EffectiveSuffix(S) == IF Len(S) > 0 /\ S[1] = "." THEN S ELSE <<".">> \o S

\* The entry is a regular file whose name does not start with ~ or # and ends
\* with the effective suffix
Accepted(e) ==
    /\ e.file
    /\ EntryName(e)[1] \notin {"~", "#"}
    /\ EndsWith(EntryName(e), EffectiveSuffix(extension))

InRegistry(path) == \E n \in DOMAIN registry : registry[n].path = path

HasTemplate(name, path) == name \in DOMAIN registry /\ registry[name].path = path

RECURSIVE SlashJoin(_)
SlashJoin(comps) ==
    IF Len(comps) = 1 THEN comps[1]
    ELSE comps[1] \o <<"/">> \o SlashJoin(Tail(comps))

ExpectedName(e) ==
    SubSeq(SlashJoin(e.rel), 1,
           Len(SlashJoin(e.rel)) - Len(EffectiveSuffix(extension)))

\* C7: an accepted entry R<sep>p<suffix> of a directory root R is registered
\* under p with the platform separator replaced by "/", also when R ends in
\* "/" or "\", and the name is never sliced outside the path string.
C7_CanonicalName ==
    /\ pc # "panic"
    /\ scan.kind = "dir" =>
          \A j \in 1..Len(scan.entries) :
              LET e == scan.entries[j]
              IN  (j < pos /\ Accepted(e) /\ e.body # "syntax")
                     => HasTemplate(ExpectedName(e), EntryPath(input, e))

\* C9: a file that fails to register is the only one skipped: once the walk of
\* a directory root is over, every other accepted file of that root is
\* registered, for the first root and for the later ones.
C9_SkipOnlyEntry ==
    (pc \in {"get_engine", "engine_done"} /\ scan.kind = "dir") =>
        \A j \in 1..Len(scan.entries) :
            LET e == scan.entries[j]
            IN  (Accepted(e) /\ e.body # "syntax") => InRegistry(EntryPath(input, e))

(***************************************************************************)
(* Claims about App::generate                                              *)
(***************************************************************************)
\* C8: generate attempts every registered template exactly once, a failure of
\* one template does not stop the others, and the pass ends normally.
C8_FullPass ==
    /\ pc # "panic"
    /\ pc = "done" => \A n \in DOMAIN registry : attempts[n] = 1

====
